---------------------------- MODULE Spec2Model ----------------------------
(***************************************************************************)
(* Model of src/app.py: a Streamlit script that projects two scenarios     *)
(* (natural growth / "China model" shock) for Taiwan's GDP and FDI and for *)
(* a user's income, house value and price-to-income ratio over 2024..2029. *)
(*                                                                         *)
(* Numbers.  The script computes in double precision.  The model computes  *)
(* the same expressions in exact rational arithmetic (a sign, a numerator, *)
(* a denominator and a power of 1000, the magnitudes being naturals of     *)
(* arbitrary size held as little-endian sequences of base-1000 limbs),     *)
(* extended with the IEEE special values +inf, -inf and NaN that the       *)
(* script's divisions can produce.  A double's relative rounding error     *)
(* (2^-53) is not modelled.                                                *)
(*                                                                         *)
(* Column names.  The script's column labels are Chinese; the model uses   *)
(* ASCII labels: year (nian fen), nat_ (zi ran), china_ (zhong guo mo      *)
(* shi), _usd (mei yuan), _10m_usd (qian wan mei yuan), _income_ntd (shou  *)
(* ru), _house_ntd (fang jia), _ratio (fang jia suo de bi), variable (zhi  *)
(* biao) and value (shu zhi).                                              *)
(***************************************************************************)
EXTENDS Integers, Sequences, FiniteSets, TLC

---------------------------------------------------------------------------
(* Natural numbers of arbitrary size: little-endian limb sequences, no     *)
(* leading (most significant) zero limb, zero being the empty sequence.    *)

LIMB == 10 * 10 * 10

\* a sequence given by a rule, as the tuple of its elements
Array(f) == f \o <<>>

\* a mapping given by a rule, as the explicit mapping of its keys
Dict(f) == f @@ <<>>

RECURSIVE Norm(_)
Norm(a) ==
    IF a = <<>> THEN <<>>
    ELSE IF a[Len(a)] = 0 THEN Norm(SubSeq(a, 1, Len(a) - 1))
    ELSE a

RECURSIVE FromInt(_)
FromInt(n) ==
    IF n = 0 THEN <<>> ELSE <<n % LIMB>> \o FromInt(n \div LIMB)

Limb(a, i) == IF 1 <= i /\ i <= Len(a) THEN a[i] ELSE 0

MaxOf(x, y) == IF x >= y THEN x ELSE y

MinOf(x, y) == IF x <= y THEN x ELSE y

\* the limbs of a number given as column sums c[i] >= 0 (each below 2^31)
RECURSIVE Carry(_, _, _)
Carry(c, i, carry) ==
    IF i > Len(c)
    THEN (IF carry = 0 THEN <<>> ELSE FromInt(carry))
    ELSE LET s == c[i] + carry
         IN  <<s % LIMB>> \o Carry(c, i + 1, s \div LIMB)

AddN(a, b) ==
    Carry(Array([i \in 1..MaxOf(Len(a), Len(b)) |-> Limb(a, i) + Limb(b, i)]),
          1, 0)

\* a - b for a >= b
RECURSIVE SubFrom(_, _, _, _)
SubFrom(a, b, i, borrow) ==
    IF i > Len(a) THEN <<>>
    ELSE LET s == a[i] - Limb(b, i) - borrow
         IN  IF s < 0
             THEN <<s + LIMB>> \o SubFrom(a, b, i + 1, 1)
             ELSE <<s>> \o SubFrom(a, b, i + 1, 0)

SubN(a, b) == Norm(SubFrom(a, b, 1, 0))

\* a * d for a single limb d
MulSmall(a, d) ==
    IF d = 0 THEN <<>> ELSE Carry(Array([i \in 1..Len(a) |-> a[i] * d]), 1, 0)

\* a * LIMB^k
ShiftN(a, k) == IF a = <<>> THEN <<>> ELSE [i \in 1..k |-> 0] \o a

\* the sum of a[i] * b[k + 1 - i] over i in lo..hi
RECURSIVE ColSum(_, _, _, _, _)
ColSum(a, b, k, lo, hi) ==
    IF lo > hi THEN 0
    ELSE a[lo] * b[k + 1 - lo] + ColSum(a, b, k, lo + 1, hi)

MulN(a, b) ==
    IF a = <<>> \/ b = <<>> THEN <<>>
    ELSE Carry(Array([k \in 1..(Len(a) + Len(b) - 1) |->
                   ColSum(a, b, k, MaxOf(1, k + 1 - Len(b)), MinOf(Len(a), k))]),
               1, 0)

\* -1, 0, 1 as a < b, a = b, a > b
RECURSIVE CmpFrom(_, _, _)
CmpFrom(a, b, i) ==
    IF i = 0 THEN 0
    ELSE IF a[i] < b[i] THEN -1
    ELSE IF a[i] > b[i] THEN 1
    ELSE CmpFrom(a, b, i - 1)

CmpN(a, b) ==
    IF Len(a) < Len(b) THEN -1
    ELSE IF Len(a) > Len(b) THEN 1
    ELSE CmpFrom(a, b, Len(a))

\* the largest digit d in lo..hi with d * b <= r (lo satisfies it)
RECURSIVE Digit(_, _, _, _)
Digit(r, b, lo, hi) ==
    IF lo >= hi THEN lo
    ELSE LET mid == (lo + hi + 1) \div 2
         IN  IF CmpN(MulSmall(b, mid), r) <= 0
             THEN Digit(r, b, mid, hi)
             ELSE Digit(r, b, lo, mid - 1)

\* the three limbs of r facing the two leading limbs of b, and these two, as
\* integers: r < b * LIMB, so both are below LIMB^3
Top3(r, b) ==
    (Limb(r, Len(b) + 1) * LIMB + Limb(r, Len(b))) * LIMB + Limb(r, Len(b) - 1)

Top2(b) == b[Len(b)] * LIMB + Limb(b, Len(b) - 1)

\* r \div b for b # 0 and r < b * LIMB: between the two estimates that the
\* leading limbs give
QuotDigit(r, b) ==
    Digit(r, b, Top3(r, b) \div (Top2(b) + 1),
          MinOf(LIMB - 1, (Top3(r, b) + 1) \div Top2(b)))

\* the step of long division with the digit d: the remainder and the quotient
\* grow by one limb
RECURSIVE DivFrom(_, _, _, _, _)
DivStep(a, b, i, r1, q, d) ==
    DivFrom(a, b, i - 1, SubN(r1, MulSmall(b, d)), <<d>> \o q)

\* long division of a by b # 0, from the limb i of a down, r the remainder
\* and q the quotient so far: <<quotient, remainder>>
DivFrom(a, b, i, r, q) ==
    IF i = 0 THEN <<Norm(q), r>>
    ELSE DivStep(a, b, i, Norm(<<a[i]>> \o r), q,
                 QuotDigit(Norm(<<a[i]>> \o r), b))

\* <<a \div b, a % b>>: the Len(b) - 1 top limbs of a are below b, so the
\* division starts with them as the remainder
DivModN(a, b) ==
    IF Len(a) < Len(b) THEN <<<<>>, a>>
    ELSE DivFrom(a, b, Len(a) - Len(b) + 1,
                 Norm(SubSeq(a, Len(a) - Len(b) + 2, Len(a))), <<>>)

IsEvenN(a) == a = <<>> \/ a[1] % 2 = 0

OneN == <<1>>

---------------------------------------------------------------------------
(* Floating-point values: a finite rational s * (n / d) * LIMB^(-e) (s the *)
(* sign, n and d naturals without low-order zero limbs, d > 0, e an        *)
(* integer), or one of +inf, -inf (k = "inf", s = 1 or -1), NaN.           *)

\* the number of low-order zero limbs of a # <<>>, from limb i on
RECURSIVE LowZeros(_, _)
LowZeros(a, i) == IF a[i] # 0 THEN 0 ELSE 1 + LowZeros(a, i + 1)

\* a without its z low-order limbs
DropLow(a, z) == SubSeq(a, z + 1, Len(a))

\* s * (n / d) * LIMB^(-e), the low-order zero limbs of n and d moved into e
Fin(s, n, d, e) ==
    IF n = <<>> \/ s = 0
    THEN [k |-> "fin", s |-> 0, n |-> <<>>, d |-> OneN, e |-> 0]
    ELSE [k |-> "fin", s |-> s,
          n |-> DropLow(n, LowZeros(n, 1)), d |-> DropLow(d, LowZeros(d, 1)),
          e |-> e - LowZeros(n, 1) + LowZeros(d, 1)]

Inf(s) == [k |-> "inf", s |-> s, n |-> <<>>, d |-> <<>>, e |-> 0]

NaN == [k |-> "nan", s |-> 0, n |-> <<>>, d |-> <<>>, e |-> 0]

Sign(i) == IF i > 0 THEN 1 ELSE IF i < 0 THEN -1 ELSE 0

Abs(i) == IF i < 0 THEN -i ELSE i

\* the value of an integer literal
Int2Num(i) == Fin(Sign(i), FromInt(Abs(i)), OneN, 0)

\* the value p / q of a decimal literal, q > 0
Ratio(p, q) == Fin(Sign(p), FromInt(Abs(p)), FromInt(q), 0)

RECURSIVE Reverse(_)
Reverse(s) == IF s = <<>> THEN <<>> ELSE Reverse(Tail(s)) \o <<Head(s)>>

\* the value of the decimal literal 0.g1g2...gk, each g a group of three digits
Frac(groups) == Fin(1, Norm(Reverse(groups)), OneN, Len(groups))

Zero == Int2Num(0)

One == Int2Num(1)

IsFinite(x) == x.k = "fin"

IsNaN(x) == x.k = "nan"

\* the numerators of finite x and y over the denominator x.d * y.d and the
\* power MaxOf(x.e, y.e) of LIMB
NumerOver(x, y) == ShiftN(MulN(x.n, y.d), MaxOf(x.e, y.e) - x.e)

\* x * y (IEEE: inf * 0 = NaN)
MulNum(x, y) ==
    IF x.k = "nan" \/ y.k = "nan" THEN NaN
    ELSE IF x.k = "inf" \/ y.k = "inf"
         THEN (IF x.s * y.s = 0 THEN NaN ELSE Inf(x.s * y.s))
    ELSE Fin(x.s * y.s, MulN(x.n, y.n), MulN(x.d, y.d), x.e + y.e)

\* a variant of DivNum: a division guarded against a zero divisor, which
\* gives 0 instead of +-inf or NaN
DivNum_ZeroGuarded(x, y) ==
    IF x.k = "nan" \/ y.k = "nan" THEN NaN
    ELSE IF x.k = "inf"
         THEN (IF y.k = "inf" THEN NaN
               ELSE Inf(IF y.s < 0 THEN -x.s ELSE x.s))
    ELSE IF y.k = "inf" THEN Zero
    ELSE IF y.s = 0 THEN Zero
    ELSE Fin(x.s * y.s, MulN(x.n, y.d), MulN(x.d, y.n), x.e - y.e)

\* x / y as numpy divides float arrays: no exception, x/0 is +-inf, 0/0 is NaN
DivNum(x, y) ==
    IF x.k = "nan" \/ y.k = "nan" THEN NaN
    ELSE IF x.k = "inf"
         THEN (IF y.k = "inf" THEN NaN
               ELSE Inf(IF y.s < 0 THEN -x.s ELSE x.s))
    ELSE IF y.k = "inf" THEN Zero
    ELSE IF y.s = 0 THEN (IF x.s = 0 THEN NaN ELSE Inf(x.s))
    ELSE Fin(x.s * y.s, MulN(x.n, y.d), MulN(x.d, y.n), x.e - y.e)

\* the sum of finite x and y of signs x.s and y.s, a and b their numerators
\* over the denominator d and the power e of LIMB
SumOver(x, y, a, b, d, e) ==
    IF x.s = y.s THEN Fin(x.s, AddN(a, b), d, e)
    ELSE IF CmpN(a, b) = 0 THEN Zero
    ELSE IF CmpN(a, b) > 0 THEN Fin(x.s, SubN(a, b), d, e)
    ELSE Fin(y.s, SubN(b, a), d, e)

\* x + y for finite x, y
AddNum(x, y) ==
    IF x.s = 0 THEN y
    ELSE IF y.s = 0 THEN x
    ELSE SumOver(x, y, NumerOver(x, y), NumerOver(y, x), MulN(x.d, y.d),
                 MaxOf(x.e, y.e))

NegNum(x) == IF x.k = "nan" THEN NaN ELSE [x EXCEPT !.s = -x.s]

\* -1, 0, 1 as x < y, x = y, x > y, for x, y not NaN
CmpNum(x, y) ==
    IF x.k = "inf" \/ y.k = "inf"
    THEN (IF x.k = "inf" /\ y.k = "inf" THEN Sign(x.s - y.s)
          ELSE IF x.k = "inf" THEN x.s ELSE -y.s)
    ELSE IF x.s # y.s THEN Sign(x.s - y.s)
    ELSE IF x.s = 0 THEN 0
    ELSE x.s * CmpN(NumerOver(x, y), NumerOver(y, x))

\* IEEE comparisons: every comparison with NaN is false
EqNum(x, y) == x.k # "nan" /\ y.k # "nan" /\ CmpNum(x, y) = 0

LtNum(x, y) == x.k # "nan" /\ y.k # "nan" /\ CmpNum(x, y) < 0

LeNum(x, y) == x.k # "nan" /\ y.k # "nan" /\ CmpNum(x, y) <= 0

\* x ** n for an integer n >= 0 (x ** 0 = 1)
RECURSIVE PowNum(_, _)
PowNum(x, n) == IF n = 0 THEN One ELSE MulNum(PowNum(x, n - 1), x)

RECURSIVE Pow10(_)
Pow10(k) == IF k = 0 THEN 1 ELSE 10 * Pow10(k - 1)

\* whether the quotient q is rounded up, c comparing twice the remainder
\* with the divisor: ties go to the even neighbour
RoundUp(q, c) == c > 0 \/ (c = 0 /\ ~IsEvenN(q))

\* s * (n / d rounded to an integer, ties to even) / scale, qr == DivModN(n, d)
RoundQuot(s, qr, d, scale) ==
    Fin(s,
        IF RoundUp(qr[1], CmpN(MulSmall(qr[2], 2), d))
        THEN AddN(qr[1], OneN) ELSE qr[1],
        scale, 0)

\* the numerator and the denominator of finite x as two naturals
Numer(x) == ShiftN(x.n, MaxOf(-x.e, 0))

Denom(x) == ShiftN(x.d, MaxOf(x.e, 0))

\* numpy's round(x, decimals): rint(x * 10^decimals) / 10^decimals, ties to
\* the even neighbour; inf and NaN are kept
RoundNum(x, decimals) ==
    IF x.k # "fin" THEN x
    ELSE RoundQuot(x.s,
                   DivModN(MulN(Numer(x), FromInt(Pow10(decimals))), Denom(x)),
                   Denom(x), FromInt(Pow10(decimals)))

\* the value astype(int) gives a finite x: truncation toward zero
TruncNum(x) == Fin(x.s, DivModN(Numer(x), Denom(x))[1], OneN, 0)

---------------------------------------------------------------------------
(* 1. Model parameters (app.py, section 1)                                 *)

\* the value of the integer literal g1_g2_..._gk, each g a group of three digits
IntLit(groups) == Fin(1, Norm(Reverse(groups)), OneN, 0)

TW_GDP_CAGR_BASE == Frac(<<36, 424, 58, 897, 607, 470>>)

TW_FDI_CAGR_BASE == Frac(<<22, 877, 126, 440, 26, 485>>)

TW_HOUSE_CAGR_BASE == Frac(<<40, 910, 522, 970, 270, 200>>)

TW_GDP_CAGR_CHINA == Frac(<<10, 86, 986, 828, 831, 218>>)

TW_FDI_CAGR_CHINA == Frac(<<11, 270, 998, 331, 796, 981>>)

\* a variant of TW_HOUSE_CAGR_CHINA: the literal with a zero dropped after
\* the decimal point (0.07923...)
TW_HOUSE_CAGR_CHINA_ZeroDropped == Frac(<<79, 232, 775, 51, 808, 240>>)

TW_HOUSE_CAGR_CHINA == Frac(<<7, 923, 277, 505, 180, 824>>)

BASE_GDP_2024 == IntLit(<<796, 904, 0, 0>>)

BASE_FDI_2024 == IntLit(<<7, 858, 117, 0>>)

BASE_YEAR == 2024

END_YEAR == 2029

---------------------------------------------------------------------------
(* Arrays and tables.  A numpy array or pandas column is a sequence; a     *)
(* DataFrame is its column labels in order and, per label, its column.     *)

\* np.arange(start, stop)
arange(start, stop) ==
    Array([i \in 1..MaxOf(stop - start, 0) |-> start + i - 1])

DataFrame(columns, data) == [columns |-> columns, data |-> data]

Range(s) == {s[i] : i \in 1..Len(s)}

NRows(df) == IF df.columns = <<>> THEN 0 ELSE Len(df.data[df.columns[1]])

\* df[name] = column: replaces the column, or appends it as the last one
SetCol(df, name, column) ==
    [columns |-> IF name \in Range(df.columns) THEN df.columns
                 ELSE Append(df.columns, name),
     data    |-> Dict([c \in Range(df.columns) \cup {name} |->
                          IF c = name THEN column ELSE df.data[c]])]

\* df[[c1, ..., cn]]: the sub-table of these columns, or KeyError when one of
\* them is not a column label
Select(df, cols) ==
    IF Range(cols) \subseteq Range(df.columns)
    THEN [err |-> "none",
          df  |-> [columns |-> cols,
                   data    |-> Dict([c \in Range(cols) |-> df.data[c]])]]
    ELSE [err |-> "KeyError", df |-> <<>>]

\* column.round(decimals)
RoundCol(column, decimals) ==
    Array([i \in 1..Len(column) |-> RoundNum(column[i], decimals)])

\* column.astype(int): truncation; pandas raises on a non-finite value
AsTypeInt(column) ==
    IF \A i \in 1..Len(column) : IsFinite(column[i])
    THEN [err |-> "none",
          col |-> Array([i \in 1..Len(column) |-> TruncNum(column[i])])]
    ELSE [err |-> "IntCastingNaNError", col |-> <<>>]

\* column.astype(str) of a column of integers
AsTypeStr(column) == Array([i \in 1..Len(column) |-> ToString(column[i])])

\* column / column and column / scalar, element by element
DivCols(a, b) == Array([i \in 1..Len(a) |-> DivNum(a[i], b[i])])

DivColBy(a, x) == Array([i \in 1..Len(a) |-> DivNum(a[i], x)])

\* df[name] = df[num] / df[den]
DivInto(df, name, num, den) ==
    SetCol(df, name, DivCols(df.data[num], df.data[den]))

\* df[name] = df[name].round(decimals)
RoundInto(df, name, decimals) ==
    SetCol(df, name, RoundCol(df.data[name], decimals))

\* df[c] = df[c].round(decimals) for the columns c = cols[i], cols[i + 1], ...
RECURSIVE RoundColsFrom(_, _, _, _)
RoundColsFrom(df, cols, decimals, i) ==
    IF i > Len(cols) THEN df
    ELSE RoundColsFrom(RoundInto(df, cols[i], decimals), cols, decimals, i + 1)

---------------------------------------------------------------------------
(* 2. Projection functions (app.py, section 2)                             *)

\* a variant of project: the exponent counts the base year as a year of growth
project_OffByOne(base_value, cagr, years) ==
    Array([i \in 1..Len(years) |->
              MulNum(base_value, PowNum(AddNum(One, cagr), years[i] + 1))])

\* base_value * ((1 + cagr) ** years), years an array of integers
project(base_value, cagr, years) ==
    Array([i \in 1..Len(years) |->
              MulNum(base_value, PowNum(AddNum(One, cagr), years[i]))])

\* a variant of years: the horizon without its last year
years_EndExclusive == arange(BASE_YEAR, END_YEAR)

\* the locals years and t of build_macro and of build_personal
years == arange(BASE_YEAR, END_YEAR + 1)

t == Array([i \in 1..Len(years) |-> years[i] - BASE_YEAR])

\* a variant of TEN_MILLION: the millions of USD
TEN_MILLION_AsMillion == IntLit(<<1, 0, 0>>)

TEN_MILLION == IntLit(<<10, 0, 0>>)

\* the rescaled columns of build_macro, each with the column it is made from
MACRO_RESCALED ==
    << <<"nat_GDP_10m_usd", "nat_GDP_usd">>,
       <<"china_GDP_10m_usd", "china_GDP_usd">>,
       <<"nat_FDI_10m_usd", "nat_FDI_usd">>,
       <<"china_FDI_10m_usd", "china_FDI_usd">> >>

\* df[p[1]] = df[p[2]] / 10_000_000 for the pairs p = pairs[i], pairs[i + 1], ...
RECURSIVE RescaleFrom(_, _, _)
RescaleFrom(df, pairs, i) ==
    IF i > Len(pairs) THEN df
    ELSE RescaleFrom(
             SetCol(df, pairs[i][1], DivColBy(df.data[pairs[i][2]], TEN_MILLION)),
             pairs, i + 1)

build_macro ==
    RescaleFrom(
        DataFrame(
            <<"year", "nat_GDP_usd", "china_GDP_usd", "nat_FDI_usd", "china_FDI_usd">>,
            [year          |-> years,
             nat_GDP_usd   |-> project(BASE_GDP_2024, TW_GDP_CAGR_BASE, t),
             china_GDP_usd |-> project(BASE_GDP_2024, TW_GDP_CAGR_CHINA, t),
             nat_FDI_usd   |-> project(BASE_FDI_2024, TW_FDI_CAGR_BASE, t),
             china_FDI_usd |-> project(BASE_FDI_2024, TW_FDI_CAGR_CHINA, t)]),
        MACRO_RESCALED, 1)

CURRENCY_COLS ==
    <<"nat_income_ntd", "china_income_ntd", "nat_house_ntd", "china_house_ntd">>

RATIO_COLS == <<"nat_ratio", "china_ratio">>

\* the table of the four projections, then the two price-to-income ratios made
\* from its columns, then the display-friendly rounding, column by column, of
\* the very table that is returned
build_personal(income_2024_ntd, house_2024_ntd) ==
    RoundColsFrom(
        RoundColsFrom(
            DivInto(
                DivInto(
                    DataFrame(
                        <<"year">> \o CURRENCY_COLS,
                        [year             |-> years,
                         nat_income_ntd   |->
                             project(income_2024_ntd, TW_GDP_CAGR_BASE, t),
                         china_income_ntd |->
                             project(income_2024_ntd, TW_GDP_CAGR_CHINA, t),
                         nat_house_ntd    |->
                             project(house_2024_ntd, TW_HOUSE_CAGR_BASE, t),
                         china_house_ntd  |->
                             project(house_2024_ntd, TW_HOUSE_CAGR_CHINA, t)]),
                    "nat_ratio", "nat_house_ntd", "nat_income_ntd"),
                "china_ratio", "china_house_ntd", "china_income_ntd"),
            CURRENCY_COLS, 0, 1),
        RATIO_COLS, 2, 1)

---------------------------------------------------------------------------
(* 3. Line chart (app.py, section 3)                                       *)

RECURSIVE Concat(_)
Concat(seqs) == IF seqs = <<>> THEN <<>> ELSE Head(seqs) \o Concat(Tail(seqs))

\* the column of k * m cells whose cell for row i of block j is cell[j][i]
Blocks(cell, k, m) ==
    Concat(Array([j \in 1..m |-> Array([i \in 1..k |-> cell[j][i]])]))

\* the column of k * m cells whose cell for column j of row i is cell[j][i]
RowBlocks(cell, k, m) ==
    Concat(Array([i \in 1..k |-> Array([j \in 1..m |-> cell[j][i]])]))

\* a variant of melt: one block of Len(value_vars) rows per row of df
melt_RowMajor(df, id_var, value_vars) ==
    IF ~(Range(value_vars) \cup {id_var} \subseteq Range(df.columns))
    THEN [err |-> "KeyError", df |-> <<>>]
    ELSE [err |-> "none",
          df  |-> DataFrame(
              <<id_var, "variable", "value">>,
              (id_var :> RowBlocks([j \in 1..Len(value_vars) |-> df.data[id_var]],
                                   NRows(df), Len(value_vars)))
              @@ [variable |->
                      RowBlocks([j \in 1..Len(value_vars) |->
                                    [i \in 1..NRows(df) |-> value_vars[j]]],
                                NRows(df), Len(value_vars)),
                  value    |->
                      RowBlocks([j \in 1..Len(value_vars) |->
                                    df.data[value_vars[j]]],
                                NRows(df), Len(value_vars))])]

\* df.melt(id_var, value_vars, var_name="variable", value_name="value"): one
\* block of NRows(df) rows per value column, the blocks in value_vars order;
\* KeyError when a label is not a column of df
melt(df, id_var, value_vars) ==
    IF ~(Range(value_vars) \cup {id_var} \subseteq Range(df.columns))
    THEN [err |-> "KeyError", df |-> <<>>]
    ELSE [err |-> "none",
          df  |-> DataFrame(
              <<id_var, "variable", "value">>,
              (id_var :> Blocks([j \in 1..Len(value_vars) |-> df.data[id_var]],
                                NRows(df), Len(value_vars)))
              @@ [variable |->
                      Blocks([j \in 1..Len(value_vars) |->
                                 [i \in 1..NRows(df) |-> value_vars[j]]],
                             NRows(df), Len(value_vars)),
                  value    |->
                      Blocks([j \in 1..Len(value_vars) |-> df.data[value_vars[j]]],
                             NRows(df), Len(value_vars))])]

\* what st.altair_chart is given: the chart's title, unit and long-form data
ChartElem(title, unit, melt_df) ==
    [area |-> "main", elem |-> "altair_chart", label |-> title, unit |-> unit,
     data |-> melt_df]

\* the chart of a melted table m, when melt raised nothing
Chart(m, title, unit) ==
    IF m.err # "none" THEN [err |-> m.err, elem |-> <<>>]
    ELSE [err |-> "none", elem |-> ChartElem(title, unit, m.df)]

line_chart(df, x_col, y_cols, title, unit) ==
    IF x_col \notin Range(df.columns)
    THEN [err |-> "KeyError", elem |-> <<>>]
    ELSE Chart(melt(SetCol(df, x_col, AsTypeStr(df.data[x_col])), x_col, y_cols),
               title, unit)

---------------------------------------------------------------------------
(* 4. - 9. The script body (app.py, sections 4 to 9), one run of which is  *)
(* one top-to-bottom execution.  env holds the script's global variables,  *)
(* the elements drawn so far and the exception that ended the run, if any. *)

Unbound == "unbound"

TextElem(area, elem, label) ==
    [area |-> area, elem |-> elem, label |-> label, unit |-> "", data |-> <<>>]

TableElem(df) ==
    [area |-> "main", elem |-> "dataframe", label |-> "", unit |-> "", data |-> df]

Emit(env, e) == [env EXCEPT !.display = Append(@, e)]

Raise(env, err) == [env EXCEPT !.fault = err]

\* the element r.elem is drawn, unless making it raised
Show(env, r) == IF r.err # "none" THEN Raise(env, r.err) ELSE Emit(env, r.elem)

\* name = r.df, unless the right-hand side raised
Bind(env, name, r) ==
    IF r.err # "none" THEN Raise(env, r.err) ELSE [env EXCEPT ![name] = r.df]

\* a call of line_chart as a statement of the script
ChartStmt(env, df, y_cols, title, unit) ==
    Show(env, line_chart(df, "year", y_cols, title, unit))

\* the table element of the selection r
TableOf(r) ==
    IF r.err # "none" THEN [err |-> r.err, elem |-> <<>>]
    ELSE [err |-> "none", elem |-> TableElem(r.df)]

\* st.dataframe(df[[...]]) as a statement of the script
TableStmt(env, df, cols) == Show(env, TableOf(Select(df, cols)))

INCOME_DEFAULT == IntLit(<<1, 0, 0>>)

HOUSE_DEFAULT == IntLit(<<10, 0, 0>>)

INPUT_MIN == Zero

MACRO_COLS ==
    <<"nat_GDP_10m_usd", "china_GDP_10m_usd", "nat_FDI_10m_usd", "china_FDI_10m_usd">>

\* df[name] = c.col, unless the cast c raised
CastInto(df, name, c) ==
    IF c.err # "none" THEN [err |-> c.err, df |-> df]
    ELSE [err |-> "none", df |-> SetCol(df, name, c.col)]

\* macro_df_round: a copy of macro_df with the four rescaled columns rounded
\* and cast to int, one column after the other
RECURSIVE RoundMacroFrom(_, _)
RoundMacroFrom(r, i) ==
    IF i > Len(MACRO_COLS) \/ r.err # "none" THEN r
    ELSE RoundMacroFrom(
             CastInto(r.df, MACRO_COLS[i],
                      AsTypeInt(RoundCol(r.df.data[MACRO_COLS[i]], 0))),
             i + 1)

NStmts == 28

\* the k-th statement of the script, run in env; w holds the widgets' values
Stmt(k, env, w) ==
    CASE k = 1 -> Emit(env, TextElem("main", "title", "title"))            \* 174
      [] k = 2 -> Emit(env, TextElem("main", "caption", "scenarios"))      \* 175
      [] k = 3 -> Emit(env, TextElem("main", "markdown", "intro"))         \* 177
      [] k = 4 -> Emit(env, TextElem("sidebar", "header", "your_data"))    \* 196
      [] k = 5 -> [env EXCEPT !.income_2024 = w.income]                    \* 198
      [] k = 6 -> [env EXCEPT !.house_2024 = w.house]                      \* 206
      [] k = 7 -> Emit(env, TextElem("sidebar", "markdown", "assumptions")) \* 214
      [] k = 8 -> [env EXCEPT !.macro_df = build_macro]                    \* 226
      [] k = 9 -> [env EXCEPT !.personal_df =                              \* 227
                      build_personal(env.income_2024, env.house_2024)]
      [] k = 10 -> Bind(env, "macro_df_round",                             \* 230
                        RoundMacroFrom([err |-> "none", df |-> env.macro_df], 1))
      [] k = 11 -> [env EXCEPT !.personal_df_round =                       \* 235
                       RoundColsFrom(
                           RoundColsFrom(env.personal_df, CURRENCY_COLS, 0, 1),
                           RATIO_COLS, 2, 1)]
      [] k = 12 -> Emit(env, TextElem("main", "subheader", "macro"))       \* 250
      [] k = 13 -> ChartStmt(env, env.macro_df_round,                      \* 253
                       <<"nat_GDP_10m_usd", "china_GDP_10m_usd">>, "gdp", "10m_usd")
      [] k = 14 -> ChartStmt(env, env.macro_df_round,                      \* 262
                       <<"nat_FDI_10m_usd", "china_FDI_10m_usd">>, "fdi", "10m_usd")
      [] k = 15 -> Emit(env, TextElem("main", "markdown", "macro_values")) \* 270
      [] k = 16 -> Bind(env, "macro_df_show",                              \* 271
                        Select(env.macro_df_round, <<"year">> \o MACRO_COLS))
      [] k = 17 -> Bind(env, "macro_df_show",                              \* 277
                        Select(env.macro_df_round, <<"Ellipsis">>))
      [] k = 18 -> Emit(env, TableElem(env.macro_df_show))                 \* 278
      [] k = 19 -> Emit(env, TextElem("main", "subheader", "income"))      \* 286
      [] k = 20 -> ChartStmt(env, env.personal_df_round,                   \* 288
                       <<"nat_income_ntd", "china_income_ntd">>, "income", "ntd")
      [] k = 21 -> TableStmt(env, env.personal_df_round,                   \* 296
                       <<"year", "nat_income_ntd", "china_income_ntd">>)
      [] k = 22 -> Emit(env, TextElem("main", "subheader", "house"))       \* 306
      [] k = 23 -> ChartStmt(env, env.personal_df_round,                   \* 308
                       <<"nat_house_ntd", "china_house_ntd">>, "house", "ntd")
      [] k = 24 -> TableStmt(env, env.personal_df_round,                   \* 316
                       <<"year", "nat_house_ntd", "china_house_ntd">>)
      [] k = 25 -> Emit(env, TextElem("main", "subheader", "ratio"))       \* 326
      [] k = 26 -> ChartStmt(env, env.personal_df_round,                   \* 328
                       <<"nat_ratio", "china_ratio">>, "ratio", "times")
      [] k = 27 -> TableStmt(env, env.personal_df_round,                   \* 336
                       <<"year", "nat_ratio", "china_ratio">>)
      [] k = 28 -> Emit(env, TextElem("main", "markdown", "ratio_note"))   \* 341

\* the statements from the k-th on, until one raises
RECURSIVE RunFrom(_, _, _)
RunFrom(k, env, w) ==
    IF k > NStmts \/ env.fault # "none" THEN env
    ELSE RunFrom(k + 1, Stmt(k, env, w), w)

\* every global is unbound and the page is empty when a run starts
Fresh ==
    [income_2024 |-> Unbound, house_2024 |-> Unbound,
     macro_df |-> Unbound, personal_df |-> Unbound,
     macro_df_round |-> Unbound, personal_df_round |-> Unbound,
     macro_df_show |-> Unbound, display |-> <<>>, fault |-> "none"]

\* an uncaught exception is shown in place of the rest of the page
Finish(env) ==
    IF env.fault = "none" THEN env
    ELSE Emit(env, TextElem("main", "exception", env.fault))

\* a rerun of the script with the widgets at w
Run(w) == Finish(RunFrom(1, Fresh, w))

---------------------------------------------------------------------------
(* State.  A session: the two sidebar widgets' values, and what the last   *)
(* run of the script left: its globals, the page, the exception that ended *)
(* it.  A direct use of the functions: the call and its result.            *)

VARIABLES widgets, income_2024, house_2024, macro_df, personal_df,
          macro_df_round, personal_df_round, macro_df_show, display, fault,
          call, ret

vars == <<widgets, income_2024, house_2024, macro_df, personal_df,
          macro_df_round, personal_df_round, macro_df_show, display, fault,
          call, ret>>

session == <<widgets, income_2024, house_2024, macro_df, personal_df,
             macro_df_round, personal_df_round, macro_df_show, display, fault>>

\* the largest income and house value typed into the widgets, besides the defaults
MaxIncome == 9

MaxHouse == 9

\* what a user may type into a number field
IncomeTyped == {Int2Num(i) : i \in -1..MaxIncome} \cup {INCOME_DEFAULT}

HouseTyped == {Int2Num(i) : i \in -1..MaxHouse} \cup {HOUSE_DEFAULT}

\* the widget values a session can hold: a number field refuses what is below
\* its min_value
WidgetValues ==
    [income : {v \in IncomeTyped : LeNum(INPUT_MIN, v)},
     house  : {v \in HouseTyped : LeNum(INPUT_MIN, v)}]

\* Run, tabulated once over the widget values
RunOf == Dict([w \in WidgetValues |-> Run(w)])

\* the script's globals and page are what the run env left
Page(env) ==
    /\ income_2024 = env.income_2024
    /\ house_2024 = env.house_2024
    /\ macro_df = env.macro_df
    /\ personal_df = env.personal_df
    /\ macro_df_round = env.macro_df_round
    /\ personal_df_round = env.personal_df_round
    /\ macro_df_show = env.macro_df_show
    /\ display = env.display
    /\ fault = env.fault

\* the run env replaces the script's globals and the page
Rerun(env) ==
    /\ income_2024' = env.income_2024
    /\ house_2024' = env.house_2024
    /\ macro_df' = env.macro_df
    /\ personal_df' = env.personal_df
    /\ macro_df_round' = env.macro_df_round
    /\ personal_df_round' = env.personal_df_round
    /\ macro_df_show' = env.macro_df_show
    /\ display' = env.display
    /\ fault' = env.fault

NoCall == [op |-> "none", args |-> <<>>]

NoRet == [done |-> FALSE, err |-> "none", val |-> <<>>]

\* the session opens with the widgets at their defaults and one run
Init ==
    /\ widgets = [income |-> INCOME_DEFAULT, house |-> HOUSE_DEFAULT]
    /\ Page(RunOf[widgets])
    /\ call = NoCall
    /\ ret = NoRet

\* the user changes the income field: the script reruns
ChangeIncome(v) ==
    /\ LeNum(INPUT_MIN, v)
    /\ v # widgets.income
    /\ widgets' = [widgets EXCEPT !.income = v]
    /\ Rerun(RunOf[widgets'])
    /\ UNCHANGED <<call, ret>>

\* the user changes the house value field: the script reruns
ChangeHouse(v) ==
    /\ LeNum(INPUT_MIN, v)
    /\ v # widgets.house
    /\ widgets' = [widgets EXCEPT !.house = v]
    /\ Rerun(RunOf[widgets'])
    /\ UNCHANGED <<call, ret>>

Next ==
    \/ \E v \in IncomeTyped : ChangeIncome(v)
    \/ \E v \in HouseTyped : ChangeHouse(v)

Spec == Init /\ [][Next]_vars

---------------------------------------------------------------------------
(* The functions used directly: one call, with arguments drawn from        *)
(* bounded sets, and its result.                                           *)

MaxBase == 3

MaxRateNum == 2

RateDen == 2

MaxYears == 3

MaxArg == 3

MaxRows == 3

\* rates above -1: the multiples of 1 / RateDen, and the six rates of the script
ProjectRates ==
    {Ratio(p, RateDen) : p \in (1 - RateDen)..MaxRateNum}
    \cup {TW_GDP_CAGR_BASE, TW_FDI_CAGR_BASE, TW_HOUSE_CAGR_BASE,
          TW_GDP_CAGR_CHINA, TW_FDI_CAGR_CHINA, TW_HOUSE_CAGR_CHINA}

ProjectCalls ==
    {[op |-> "project", args |-> <<Int2Num(b), r, arange(0, n)>>] :
        b \in 0..MaxBase, r \in ProjectRates, n \in 0..(MaxYears + 1)}

BuildMacroCalls == {[op |-> "build_macro", args |-> <<>>]}

BuildPersonalCalls ==
    {[op |-> "build_personal", args |-> <<i, h>>] :
        i \in {Int2Num(a) : a \in -1..MaxArg} \cup {INCOME_DEFAULT},
        h \in {Int2Num(a) : a \in -1..MaxArg} \cup {HOUSE_DEFAULT}}

VALUE_LABELS == {"a", "b", "c"}

\* a table of k rows: the years from BASE_YEAR on and three value columns
TestTable(k) ==
    DataFrame(<<"year", "a", "b", "c">>,
              [year |-> arange(BASE_YEAR, BASE_YEAR + k),
               a    |-> Array([i \in 1..k |-> 100 + i]),
               b    |-> Array([i \in 1..k |-> 200 + i]),
               c    |-> Array([i \in 1..k |-> 300 + i])])

\* the lists of distinct value columns
ColumnLists ==
    {y \in UNION {[1..m -> VALUE_LABELS] : m \in 0..Cardinality(VALUE_LABELS)} :
        \A i, j \in 1..Len(y) : i # j => y[i] # y[j]}

LineChartCalls ==
    {[op |-> "line_chart", args |-> <<TestTable(k), "year", y, "title", "unit">>] :
        k \in 0..MaxRows, y \in ColumnLists}

\* what a call that returned val gives back
Return(val) == [done |-> TRUE, err |-> "none", val |-> val]

\* what a call of line_chart gives back: the chart it drew, or what it raised
Result(r) == [done |-> TRUE, err |-> r.err, val |-> r.elem]

\* no script has run: a function is about to be called
InitAPI ==
    /\ widgets = Unbound
    /\ Page(Fresh)
    /\ call \in ProjectCalls \cup BuildMacroCalls \cup BuildPersonalCalls
                \cup LineChartCalls
    /\ ret = NoRet

CallProject ==
    /\ call.op = "project"
    /\ ~ret.done
    /\ ret' = Return(project(call.args[1], call.args[2], call.args[3]))
    /\ UNCHANGED <<session, call>>

CallBuildMacro ==
    /\ call.op = "build_macro"
    /\ ~ret.done
    /\ ret' = Return(build_macro)
    /\ UNCHANGED <<session, call>>

CallBuildPersonal ==
    /\ call.op = "build_personal"
    /\ ~ret.done
    /\ ret' = Return(build_personal(call.args[1], call.args[2]))
    /\ UNCHANGED <<session, call>>

CallLineChart ==
    /\ call.op = "line_chart"
    /\ ~ret.done
    /\ ret' = Result(line_chart(call.args[1], call.args[2], call.args[3],
                                call.args[4], call.args[5]))
    /\ UNCHANGED <<session, call>>

NextAPI ==
    \/ CallProject
    \/ CallBuildMacro
    \/ CallBuildPersonal
    \/ CallLineChart

SpecAPI == InitAPI /\ [][NextAPI]_vars

---------------------------------------------------------------------------
(* Properties.  C1, C4 and C6 are about a session (Spec); the others are   *)
(* about one call of a function (SpecAPI).                                 *)

\* base * (1 + rate)^n, the compound growth the documentation states
Growth(base, rate, n) == MulNum(base, PowNum(AddNum(One, rate), n))

AbsNum(x) == IF x.s < 0 THEN NegNum(x) ELSE x

\* the relative tolerance granted to a double-precision result: 10^-9
Tolerance == Frac(<<0, 0, 1>>)

\* finite x is y within the tolerance
WithinTol(x, y) ==
    /\ IsFinite(x)
    /\ IsFinite(y)
    /\ LeNum(AbsNum(AddNum(x, NegNum(y))), MulNum(Tolerance, AbsNum(y)))

\* the charts and tables of the page, in page order, each with its label
IsFigure(e) == e.elem \in {"altair_chart", "dataframe"}

Figures ==
    [i \in 1..Len(SelectSeq(display, IsFigure)) |->
        <<SelectSeq(display, IsFigure)[i].elem,
          SelectSeq(display, IsFigure)[i].label>>]

\* C1: every run of the script ends without a fault, having drawn, in this
\* order, the GDP chart and table, the FDI chart and table, the income chart
\* and table, the house value chart and table, the ratio chart and table.
C1_RefreshCompletes ==
    /\ fault = "none"
    /\ Figures = << <<"altair_chart", "gdp">>, <<"dataframe", "">>,
                    <<"altair_chart", "fdi">>, <<"dataframe", "">>,
                    <<"altair_chart", "income">>, <<"dataframe", "">>,
                    <<"altair_chart", "house">>, <<"dataframe", "">>,
                    <<"altair_chart", "ratio">>, <<"dataframe", "">> >>

IsCall(op) == call.op = op /\ ret.done

\* the ratio column col of the table build_personal returned is, in every
\* row, the unrounded house value over the unrounded income of that row
RatioFromUnrounded(col, house_rate, income_rate) ==
    \A i \in 1..NRows(ret.val) :
        WithinTol(ret.val.data[col][i],
                  DivNum(Growth(call.args[2], house_rate, i - 1),
                         Growth(call.args[1], income_rate, i - 1)))

\* C2: in every row of the table build_personal returns for a positive income
\* and a house value >= 0, each of the two ratios is, within floating-point
\* tolerance, the unrounded projected house value over the unrounded projected
\* income of the row.
C2_RatioFromUnrounded ==
    (IsCall("build_personal") /\ LtNum(Zero, call.args[1])
        /\ LeNum(Zero, call.args[2]))
    => /\ RatioFromUnrounded("nat_ratio", TW_HOUSE_CAGR_BASE, TW_GDP_CAGR_BASE)
       /\ RatioFromUnrounded("china_ratio", TW_HOUSE_CAGR_CHINA, TW_GDP_CAGR_CHINA)

Increasing(v) == \A i \in 1..(Len(v) - 1) : LtNum(v[i], v[i + 1])

Constant(v) == \A i \in 1..(Len(v) - 1) : EqNum(v[i], v[i + 1])

Decreasing(v) == \A i \in 1..(Len(v) - 1) : LtNum(v[i + 1], v[i])

\* the projection of the year 0 is the base value
BaseAtYearZero ==
    \A i \in 1..Len(ret.val) :
        call.args[3][i] = 0 => EqNum(ret.val[i], call.args[1])

\* the projections of two years or more grow, stay or shrink as the rate is
\* above, at or below 0, and only then
MonotoneAsRate ==
    Len(ret.val) >= 2
    => /\ Increasing(ret.val) <=> LtNum(Zero, call.args[2])
       /\ Constant(ret.val) <=> EqNum(call.args[2], Zero)
       /\ Decreasing(ret.val) <=> LtNum(call.args[2], Zero)

\* C3 as stated: for every base value >= 0 and rate > -1, project gives the
\* base value for 0 years, and its values over the years 0, 1, 2, ... are
\* strictly increasing iff the rate is > 0, constant iff it is 0, strictly
\* decreasing iff it is < 0.
C3_ProjectMonotone ==
    (IsCall("project") /\ LeNum(Zero, call.args[1])
        /\ LtNum(Int2Num(-1), call.args[2]))
    => BaseAtYearZero /\ MonotoneAsRate

\* C3 as amended: for every base value >= 0 and rate > -1, project gives the
\* base value for 0 years; for a base value > 0 its values over the years 0,
\* 1, 2, ... are strictly increasing iff the rate is > 0, constant iff it is
\* 0, strictly decreasing iff it is < 0; for the base value 0 they are all 0.
C3_ProjectMonotonePositiveBase ==
    (IsCall("project") /\ LeNum(Zero, call.args[1])
        /\ LtNum(Int2Num(-1), call.args[2]))
    => /\ BaseAtYearZero
       /\ LtNum(Zero, call.args[1]) => MonotoneAsRate
       /\ EqNum(call.args[1], Zero)
              => \A i \in 1..Len(ret.val) : EqNum(ret.val[i], Zero)

\* a positive base value shrinking over three years at a negative rate
C3_Witness ==
    /\ IsCall("project")
    /\ LtNum(Zero, call.args[1])
    /\ LtNum(Int2Num(-1), call.args[2])
    /\ LtNum(call.args[2], Zero)
    /\ Len(ret.val) >= 3
    /\ LtNum(ret.val[3], ret.val[2])
    /\ LtNum(ret.val[2], ret.val[1])

\* what "undefined" is for a house value: +inf when it is > 0, NaN when it is 0
IsUndefinedMarker(x, house) ==
    IF LtNum(Zero, house) THEN x = Inf(1) ELSE IsNaN(x)

\* every ratio of the table df is the undefined marker
RatiosUndefined(df, house) ==
    /\ NRows(df) = END_YEAR - BASE_YEAR + 1
    /\ \A i \in 1..NRows(df) :
           \A c \in Range(RATIO_COLS) : IsUndefinedMarker(df.data[c][i], house)

\* C4: when the income is 0, build_personal raises nothing and every ratio of
\* its table, for every year and both scenarios, is +inf (house value > 0) or
\* NaN (house value 0), never a finite number, and the rounded copy of the
\* table keeps these markers.
C4_ZeroIncomeUndefined ==
    (widgets.income = Zero)
    => /\ fault \notin {"ZeroDivisionError", "IntCastingNaNError"}
       /\ RatiosUndefined(personal_df, widgets.house)
       /\ RatiosUndefined(personal_df_round, widgets.house)

\* a session with income 0 and a positive house value, whose ratios are +inf
C4_Witness ==
    /\ widgets.income = Zero
    /\ LtNum(Zero, widgets.house)
    /\ personal_df.data["nat_ratio"][1] = Inf(1)
    /\ personal_df_round.data["china_ratio"][6] = Inf(1)

\* C5: build_personal called with a negative income or a negative house value
\* fails with InvalidInputError and returns no table.
C5_NegativeRejected ==
    (IsCall("build_personal")
        /\ (LtNum(call.args[1], Zero) \/ LtNum(call.args[2], Zero)))
    => ret.err = "InvalidInputError" /\ ret.val = <<>>

\* the unrounded projections of base at rate fill the column col of df
Unrounded(df, col, base, rate) ==
    \A i \in 1..NRows(df) : EqNum(df.data[col][i], Growth(base, rate, i - 1))

\* the unrounded ratio of the projections fills the column col of df
UnroundedRatio(df, col, house_rate, income_rate) ==
    \A i \in 1..NRows(df) :
        EqNum(df.data[col][i],
              DivNum(Growth(widgets.house, house_rate, i - 1),
                     Growth(widgets.income, income_rate, i - 1)))

\* C6: the tables build_macro and build_personal returned hold, whatever is
\* rounded for display afterwards, the unrounded projections in every currency
\* column and the unrounded ratios in every ratio column.
C6_ReturnedTablesUnrounded ==
    /\ Unrounded(macro_df, "nat_GDP_usd", BASE_GDP_2024, TW_GDP_CAGR_BASE)
    /\ Unrounded(macro_df, "china_GDP_usd", BASE_GDP_2024, TW_GDP_CAGR_CHINA)
    /\ Unrounded(macro_df, "nat_FDI_usd", BASE_FDI_2024, TW_FDI_CAGR_BASE)
    /\ Unrounded(macro_df, "china_FDI_usd", BASE_FDI_2024, TW_FDI_CAGR_CHINA)
    /\ Unrounded(personal_df, "nat_income_ntd", widgets.income, TW_GDP_CAGR_BASE)
    /\ Unrounded(personal_df, "china_income_ntd", widgets.income, TW_GDP_CAGR_CHINA)
    /\ Unrounded(personal_df, "nat_house_ntd", widgets.house, TW_HOUSE_CAGR_BASE)
    /\ Unrounded(personal_df, "china_house_ntd", widgets.house, TW_HOUSE_CAGR_CHINA)
    /\ LtNum(Zero, widgets.income)
           => /\ UnroundedRatio(personal_df, "nat_ratio",
                                TW_HOUSE_CAGR_BASE, TW_GDP_CAGR_BASE)
              /\ UnroundedRatio(personal_df, "china_ratio",
                                TW_HOUSE_CAGR_CHINA, TW_GDP_CAGR_CHINA)

\* the r-th record of a long-form table whose time column is x_col
Record(long, x_col, r) ==
    <<long.data[x_col][r], long.data["variable"][r], long.data["value"][r]>>

\* the record the cell of row i and column y_cols[j] of df becomes
RecordOf(df, x_col, y_cols, i, j) ==
    <<ToString(df.data[x_col][i]), y_cols[j], df.data[y_cols[j]][i]>>

\* C7 as stated: the long form line_chart makes of a table of k rows for m
\* value columns has k * m records (time, series name, value) in row-major
\* order: the rows in table order and, within a row, the columns in the order
\* of the list.
C7_RowMajor ==
    (IsCall("line_chart") /\ ret.err = "none")
    => /\ NRows(ret.val.data) = NRows(call.args[1]) * Len(call.args[3])
       /\ \A i \in 1..NRows(call.args[1]) : \A j \in 1..Len(call.args[3]) :
              Record(ret.val.data, call.args[2], (i - 1) * Len(call.args[3]) + j)
              = RecordOf(call.args[1], call.args[2], call.args[3], i, j)

\* C7 as amended: the long form line_chart makes of a table of k rows for m
\* distinct value columns has k * m records (time, series name, value) in
\* column-major order: the columns in the order of the list and, within a
\* column, the rows in table order.
C7_ColumnMajor ==
    (IsCall("line_chart") /\ ret.err = "none")
    => /\ NRows(ret.val.data) = NRows(call.args[1]) * Len(call.args[3])
       /\ \A i \in 1..NRows(call.args[1]) : \A j \in 1..Len(call.args[3]) :
              Record(ret.val.data, call.args[2], (j - 1) * NRows(call.args[1]) + i)
              = RecordOf(call.args[1], call.args[2], call.args[3], i, j)

\* a chart of two rows or more and two columns or more, whose second record
\* is the second row of the first column
C7_Witness ==
    /\ IsCall("line_chart")
    /\ ret.err = "none"
    /\ NRows(call.args[1]) >= 2
    /\ Len(call.args[3]) >= 2
    /\ Record(ret.val.data, call.args[2], 2)
       = RecordOf(call.args[1], call.args[2], call.args[3], 2, 1)

\* the column col of the table returned holds the projection of base at rate
\* over year - 2024 years, rounded to the unit when rounded is TRUE
ProjectedByYear(col, base, rate, rounded) ==
    \A i \in 1..NRows(ret.val) :
        EqNum(ret.val.data[col][i],
              IF rounded
              THEN RoundNum(Growth(base, rate, ret.val.data["year"][i] - 2024), 0)
              ELSE Growth(base, rate, ret.val.data["year"][i] - 2024))

\* C8: the table build_macro returns, and the table build_personal returns
\* for any arguments, has 6 rows, of the years 2024, 2025, ..., 2029 in this
\* order, and the projection of each row is the one of year - 2024 years.
C8_SixYears ==
    /\ (IsCall("build_macro") \/ IsCall("build_personal"))
       => /\ ret.err = "none"
          /\ NRows(ret.val) = 6
          /\ ret.val.data["year"] = <<2024, 2025, 2026, 2027, 2028, 2029>>
    /\ IsCall("build_macro")
       => /\ ProjectedByYear("nat_GDP_usd", BASE_GDP_2024, TW_GDP_CAGR_BASE, FALSE)
          /\ ProjectedByYear("china_GDP_usd", BASE_GDP_2024, TW_GDP_CAGR_CHINA, FALSE)
          /\ ProjectedByYear("nat_FDI_usd", BASE_FDI_2024, TW_FDI_CAGR_BASE, FALSE)
          /\ ProjectedByYear("china_FDI_usd", BASE_FDI_2024, TW_FDI_CAGR_CHINA, FALSE)
    /\ IsCall("build_personal")
       => /\ ProjectedByYear("nat_income_ntd", call.args[1], TW_GDP_CAGR_BASE, TRUE)
          /\ ProjectedByYear("china_income_ntd", call.args[1], TW_GDP_CAGR_CHINA, TRUE)
          /\ ProjectedByYear("nat_house_ntd", call.args[2], TW_HOUSE_CAGR_BASE, TRUE)
          /\ ProjectedByYear("china_house_ntd", call.args[2], TW_HOUSE_CAGR_CHINA, TRUE)

\* build_personal has returned the table of the default income, down to 2029
C8_Witness ==
    /\ IsCall("build_personal")
    /\ call.args[1] = INCOME_DEFAULT
    /\ NRows(ret.val) = 6
    /\ ret.val.data["year"][6] = 2029
    /\ LtNum(call.args[1], ret.val.data["nat_income_ntd"][6])

\* the column rescaled is the column raw over 10,000,000, row by row
Rescaled(rescaled, raw) ==
    \A i \in 1..NRows(ret.val) :
        EqNum(ret.val.data[rescaled][i],
              DivNum(ret.val.data[raw][i], IntLit(<<10, 0, 0>>)))

\* C9: in every row of the table build_macro returns, each of the four
\* columns in ten-millions of USD is the USD column it is made from, of the
\* same row, over 10,000,000.
C9_Rescaled ==
    IsCall("build_macro")
    => /\ Rescaled("nat_GDP_10m_usd", "nat_GDP_usd")
       /\ Rescaled("china_GDP_10m_usd", "china_GDP_usd")
       /\ Rescaled("nat_FDI_10m_usd", "nat_FDI_usd")
       /\ Rescaled("china_FDI_10m_usd", "china_FDI_usd")

\* build_macro has returned: the GDP of 2024 is 79,690.4 ten-millions of USD
C9_Witness ==
    /\ IsCall("build_macro")
    /\ NRows(ret.val) >= 1
    /\ EqNum(ret.val.data["nat_GDP_usd"][1], IntLit(<<796, 904, 0, 0>>))
    /\ EqNum(ret.val.data["nat_GDP_10m_usd"][1], Ratio(796904, 10))

\* the shock-scenario rate of the indicator whose natural rate is rate
ShockOf(rate) ==
    CASE rate = TW_GDP_CAGR_BASE -> TW_GDP_CAGR_CHINA
      [] rate = TW_FDI_CAGR_BASE -> TW_FDI_CAGR_CHINA
      [] rate = TW_HOUSE_CAGR_BASE -> TW_HOUSE_CAGR_CHINA

\* shock is natural in the base year and strictly below it in the later years
BelowAfterBase(shock, natural, elapsed) ==
    /\ Len(shock) = Len(natural)
    /\ \A i \in 1..Len(natural) :
           /\ elapsed[i] = 0 => EqNum(shock[i], natural[i])
           /\ elapsed[i] > 0 => LtNum(shock[i], natural[i])

\* C10: each of the three shock-scenario rates is strictly below the natural
\* rate of its indicator, so that the projection of a positive base value at
\* the shock rate is the projection at the natural rate in 2024 and is
\* strictly below it in every later year.
C10_ShockBelowNatural ==
    /\ LtNum(TW_GDP_CAGR_CHINA, TW_GDP_CAGR_BASE)
    /\ LtNum(TW_FDI_CAGR_CHINA, TW_FDI_CAGR_BASE)
    /\ LtNum(TW_HOUSE_CAGR_CHINA, TW_HOUSE_CAGR_BASE)
    /\ (IsCall("project") /\ LtNum(Zero, call.args[1])
           /\ call.args[2] \in {TW_GDP_CAGR_BASE, TW_FDI_CAGR_BASE,
                                TW_HOUSE_CAGR_BASE})
       => BelowAfterBase(project(call.args[1], ShockOf(call.args[2]), call.args[3]),
                         ret.val, call.args[3])
    /\ IsCall("build_macro")
       => /\ BelowAfterBase(ret.val.data["china_GDP_usd"],
                            ret.val.data["nat_GDP_usd"], t)
          /\ BelowAfterBase(ret.val.data["china_FDI_usd"],
                            ret.val.data["nat_FDI_usd"], t)

\* a positive base value projected at the natural house price rate over a
\* year or more: the projection at the shock rate is below it after a year
C10_Witness ==
    /\ IsCall("project")
    /\ LtNum(Zero, call.args[1])
    /\ call.args[2] = TW_HOUSE_CAGR_BASE
    /\ Len(ret.val) >= 2
    /\ LtNum(project(call.args[1], TW_HOUSE_CAGR_CHINA, call.args[3])[2], ret.val[2])

=============================================================================
